---- MODULE Spec2Model ----
(***************************************************************************)
(* store-paper.py: a file is compressed, base64-encoded, split into chunks *)
(* and serialised as one META and N PART text frames (encode_file); the    *)
(* frames read back from the scanned symbols are parsed, collected by      *)
(* index, checked for completeness, reassembled, decompressed and written  *)
(* (decode_pdf).                                                           *)
(*                                                                         *)
(* Text is a sequence of one-character strings.  Bytes are integers 0..255.*)
(* A Python value that may be None is <<>> (None) or <<v>> (the value v).  *)
(***************************************************************************)
EXTENDS Integers, Sequences, FiniteSets, TLC

\* ------------------------------------------------------------- bounds
\* Longest input file, in bytes.
MaxLen == 1
\* The reduced chunk size an encode run may use next to the configured one,
\* so that a payload splits into several PART frames.
SmallChunk == 5

\* ------------------------------------------------- configuration (l.31-41)
CHUNK_SIZE == 800
META_PREFIX == <<"S", "T", "P", "R", "v", "1", "-", "M", "E", "T", "A">>
PART_PREFIX == <<"S", "T", "P", "R", "v", "1", "-", "P", "A", "R", "T">>

\* ------------------------------------------------------- Python values
None == <<>>
Some(v) == <<v>>

\* The byte values input files are drawn from: one with an 8-bit and one
\* with a 9-bit literal code in deflate's fixed Huffman table.
FileBytes == {97, 200}

RECURSIVE SeqsUpTo(_, _)
SeqsUpTo(S, n) ==
  IF n = 0 THEN {<<>>}
  ELSE LET shorter == SeqsUpTo(S, n - 1)
       IN  shorter \cup {Append(s, b) : s \in {t \in shorter : Len(t) = n - 1}, b \in S}

RECURSIVE Concat(_)
Concat(ss) == IF ss = <<>> THEN <<>> ELSE Head(ss) \o Concat(Tail(ss))

Pow2(n) == 2 ^ n

\* ----------------------------------------------------------- str / int
Digits == <<"0", "1", "2", "3", "4", "5", "6", "7", "8", "9">>
IsDigit(c) == \E i \in 1..10 : Digits[i] = c
DigitVal(c) == (CHOOSE i \in 1..10 : Digits[i] = c) - 1

\* str(n) of a non-negative integer, as the f-strings format it.
RECURSIVE str(_)
str(n) == IF n < 10 THEN <<Digits[n + 1]>> ELSE Append(str(n \div 10), Digits[(n % 10) + 1])

\* int(s): the value of a decimal numeral, or ValueError.  (Of what int()
\* accepts besides digits - a sign, blanks, underscores - no frame text of
\* the model contains any.)
RECURSIVE IntVal(_, _)
IntVal(s, acc) == IF s = <<>> THEN acc ELSE IntVal(Tail(s), acc * 10 + DigitVal(Head(s)))
int(s) ==
  IF s # <<>> /\ \A i \in 1..Len(s) : IsDigit(s[i])
  THEN [ok |-> TRUE, val |-> IntVal(s, 0)]
  ELSE [ok |-> FALSE, val |-> 0]

\* content.startswith(prefix)
startswith(s, prefix) ==
  Len(s) >= Len(prefix) /\ SubSeq(s, 1, Len(prefix)) = prefix

\* s.split('|', maxsplit): maxsplit < 0 splits at every '|'.
RECURSIVE SplitFrom(_, _, _, _)
SplitFrom(s, i, cur, maxsplit) ==
  IF i > Len(s) THEN <<cur>>
  ELSE IF s[i] = "|" /\ maxsplit # 0
       THEN <<cur>> \o SplitFrom(s, i + 1, <<>>, maxsplit - 1)
       ELSE SplitFrom(s, i + 1, Append(cur, s[i]), maxsplit)
split(s, maxsplit) == SplitFrom(s, 1, <<>>, maxsplit)

\* sep.join(parts) with sep = '|', as the f-strings of encode_file lay a
\* frame out.
RECURSIVE JoinBar(_)
JoinBar(parts) ==
  IF Len(parts) = 1 THEN parts[1] ELSE parts[1] \o <<"|">> \o JoinBar(Tail(parts))

\* b.data.decode('utf-8'): the byte "0xFF" stands for a byte sequence that
\* is not UTF-8; every other element is an ASCII character.
BadByte == "0xFF"
utf8_ok(bytes) == \A i \in 1..Len(bytes) : bytes[i] # BadByte

\* --------------------------------------------------------------- base64
B64Alphabet ==
  <<"A", "B", "C", "D", "E", "F", "G", "H", "I", "J", "K", "L", "M",
    "N", "O", "P", "Q", "R", "S", "T", "U", "V", "W", "X", "Y", "Z",
    "a", "b", "c", "d", "e", "f", "g", "h", "i", "j", "k", "l", "m",
    "n", "o", "p", "q", "r", "s", "t", "u", "v", "w", "x", "y", "z",
    "0", "1", "2", "3", "4", "5", "6", "7", "8", "9", "+", "/">>
B64Char(v) == B64Alphabet[v + 1]
IsB64(c) == \E i \in 1..64 : B64Alphabet[i] = c
B64Val(c) == (CHOOSE i \in 1..64 : B64Alphabet[i] = c) - 1

\* base64.b64encode(bytes).decode('ascii')
RECURSIVE b64encode(_)
b64encode(bs) ==
  IF bs = <<>> THEN <<>>
  ELSE IF Len(bs) = 1
  THEN <<B64Char(bs[1] \div 4), B64Char((bs[1] % 4) * 16), "=", "=">>
  ELSE IF Len(bs) = 2
  THEN <<B64Char(bs[1] \div 4), B64Char((bs[1] % 4) * 16 + bs[2] \div 16),
         B64Char((bs[2] % 16) * 4), "=">>
  ELSE <<B64Char(bs[1] \div 4), B64Char((bs[1] % 4) * 16 + bs[2] \div 16),
         B64Char((bs[2] % 16) * 4 + bs[3] \div 64), B64Char(bs[3] % 64)>>
       \o b64encode(SubSeq(bs, 4, Len(bs)))

\* base64.b64decode(text) (validate=False): characters outside the alphabet
\* are skipped, a completed '=' padding ends the input, leftover bits of the
\* last group are dropped, and data that stops inside a group is an error
\* (binascii.Error).
RECURSIVE a2b_base64(_, _, _, _, _, _)
a2b_base64(s, i, quad_pos, leftchar, pads, out) ==
  IF i > Len(s) THEN [ok |-> quad_pos = 0, data |-> out]
  ELSE IF s[i] = "="
  THEN IF quad_pos >= 2 /\ quad_pos + pads + 1 >= 4
       THEN [ok |-> TRUE, data |-> out]
       ELSE a2b_base64(s, i + 1, quad_pos, leftchar,
                       IF quad_pos >= 2 THEN pads + 1 ELSE pads, out)
  ELSE IF ~IsB64(s[i]) THEN a2b_base64(s, i + 1, quad_pos, leftchar, pads, out)
  ELSE LET v == B64Val(s[i])
       IN  CASE quad_pos = 0 -> a2b_base64(s, i + 1, 1, v, 0, out)
             [] quad_pos = 1 ->
                  a2b_base64(s, i + 1, 2, v % 16, 0, Append(out, leftchar * 4 + v \div 16))
             [] quad_pos = 2 ->
                  a2b_base64(s, i + 1, 3, v % 4, 0, Append(out, leftchar * 16 + v \div 4))
             [] OTHER ->
                  a2b_base64(s, i + 1, 0, 0, 0, Append(out, leftchar * 64 + v))
b64decode(s) == a2b_base64(s, 1, 0, 0, 0, <<>>)

\* ----------------------------------------------------------------- zlib
\* Adler-32 of the uncompressed bytes, the trailer of a zlib stream: the
\* running sums s1 and s2 modulo 65521.
RECURSIVE AdlerSums(_, _, _)
AdlerSums(bs, a, b) ==
  IF bs = <<>> THEN <<a, b>>
  ELSE LET a2 == (a + Head(bs)) % 65521
       IN  AdlerSums(Tail(bs), a2, (b + a2) % 65521)
\* The checksum as its four bytes, most significant first (s2, then s1).
adler32(bs) ==
  LET ab == AdlerSums(bs, 1, 0)
  IN  <<ab[2] \div 256, ab[2] % 256, ab[1] \div 256, ab[1] % 256>>

\* The bits of a Huffman code, most significant first.
CodeBits(code, len) == [i \in 1..len |-> (code \div Pow2(len - i)) % 2]
\* An integer field of a deflate stream, least significant bit first.
FieldVal(bits, pos, n) ==
  LET RECURSIVE Sum(_)
      Sum(k) == IF k = n THEN 0 ELSE bits[pos + k] * Pow2(k) + Sum(k + 1)
  IN  Sum(0)
\* A Huffman code read from the stream, most significant bit first.
CodeVal(bits, pos, n) ==
  LET RECURSIVE Sum(_)
      Sum(k) == IF k = n THEN 0 ELSE bits[pos + k] * Pow2(n - 1 - k) + Sum(k + 1)
  IN  Sum(0)

\* Bytes of a bit sequence, first bit the least significant, zero-padded.
RECURSIVE PackBits(_)
PackBits(bits) ==
  IF bits = <<>> THEN <<>>
  ELSE LET n == IF Len(bits) < 8 THEN Len(bits) ELSE 8
       IN  <<FieldVal(bits, 1, n)>> \o PackBits(SubSeq(bits, n + 1, Len(bits)))
RECURSIVE UnpackBits(_)
UnpackBits(bs) ==
  IF bs = <<>> THEN <<>>
  ELSE [i \in 1..8 |-> (Head(bs) \div Pow2(i - 1)) % 2] \o UnpackBits(Tail(bs))

\* The fixed Huffman code of a literal byte (RFC 1951, 3.2.6).
FixedLiteral(b) == IF b < 144 THEN CodeBits(48 + b, 8) ELSE CodeBits(400 + (b - 144), 9)

\* zlib.compress(data, level=9): header 78 DA, one final fixed-Huffman
\* block of literals closed by the end-of-block code, the Adler-32 trailer.
\* This is the stream zlib emits for the inputs of the model, which are too
\* short to hold a back-reference (a match is at least 3 bytes long).
zlib_compress(data) ==
  <<120, 218>>
  \o PackBits(<<1, 1, 0>> \o Concat([i \in 1..Len(data) |-> FixedLiteral(data[i])])
              \o CodeBits(0, 7))
  \o adler32(data)

\* Length and distance symbols of deflate (RFC 1951, 3.2.5): base value
\* and number of extra bits of the length symbols 257..285 and of the
\* distance symbols 0..29.
LengthBase ==
  <<3, 4, 5, 6, 7, 8, 9, 10, 11, 13, 15, 17, 19, 23, 27, 31,
    35, 43, 51, 59, 67, 83, 99, 115, 131, 163, 195, 227, 258>>
LengthExtra ==
  <<0, 0, 0, 0, 0, 0, 0, 0, 1, 1, 1, 1, 2, 2, 2, 2,
    3, 3, 3, 3, 4, 4, 4, 4, 5, 5, 5, 5, 0>>
DistBase ==
  <<1, 2, 3, 4, 5, 7, 9, 13, 17, 25, 33, 49, 65, 97, 129, 193, 257, 385, 513, 769,
    1025, 1537, 2049, 3073, 4097, 6145, 8193, 12289, 16385, 24577>>
DistExtra ==
  <<0, 0, 0, 0, 1, 1, 2, 2, 3, 3, 4, 4, 5, 5, 6, 6, 7, 7, 8, 8,
    9, 9, 10, 10, 11, 11, 12, 12, 13, 13>>

\* What inflating a block gives: ok, the output so far and the position of
\* the next unread bit; or an error (ok = FALSE).
InflateError == [ok |-> FALSE, out |-> <<>>, pos |-> 0]

\* The next literal/length symbol of a fixed-Huffman block at bit pos:
\* <<symbol, code length>>, or <<-1, 0>> when the stream ends inside it.
FixedSymbol(bits, pos) ==
  LET avail == Len(bits) - pos + 1
      c7 == CodeVal(bits, pos, 7)
      c8 == CodeVal(bits, pos, 8)
      c9 == CodeVal(bits, pos, 9)
  IN  IF avail < 7 THEN <<-1, 0>>
      ELSE IF c7 <= 23 THEN <<256 + c7, 7>>
      ELSE IF avail < 8 THEN <<-1, 0>>
      ELSE IF c8 >= 48 /\ c8 <= 191 THEN <<c8 - 48, 8>>
      ELSE IF c8 >= 192 /\ c8 <= 199 THEN <<280 + (c8 - 192), 8>>
      ELSE IF avail < 9 THEN <<-1, 0>>
      ELSE <<144 + (c9 - 400), 9>>

\* out extended by a copy of n bytes starting dist bytes back; a copy longer
\* than dist overlaps what it writes and so repeats the last dist bytes.
CopyBack(out, dist, n) ==
  out \o [i \in 1..n |-> out[Len(out) - dist + 1 + ((i - 1) % dist)]]

\* A length symbol and the distance that follows it: the copy, or an error
\* (a symbol outside the tables, a distance before the start of the
\* output, the stream ending inside the pair).
InflateMatch(bits, pos, out, sym) ==
  LET li == sym - 256
      avail(p) == Len(bits) - p + 1
  IN  IF li > 29 THEN InflateError
      ELSE IF avail(pos) < LengthExtra[li] + 5 THEN InflateError
      ELSE LET n == LengthBase[li] + FieldVal(bits, pos, LengthExtra[li])
               dpos == pos + LengthExtra[li]
               di == CodeVal(bits, dpos, 5) + 1
           IN  IF di > 30 THEN InflateError
               ELSE IF avail(dpos + 5) < DistExtra[di] THEN InflateError
               ELSE LET dist == DistBase[di] + FieldVal(bits, dpos + 5, DistExtra[di])
                    IN  IF dist > Len(out) THEN InflateError
                        ELSE [ok |-> TRUE, out |-> CopyBack(out, dist, n),
                              pos |-> dpos + 5 + DistExtra[di]]

\* A fixed-Huffman block from bit pos: literals and matches up to the
\* end-of-block symbol.
RECURSIVE InflateFixed(_, _, _)
InflateFixed(bits, pos, out) ==
  LET sl == FixedSymbol(bits, pos)
      sym == sl[1]
      next == pos + sl[2]
  IN  IF sym < 0 THEN InflateError
      ELSE IF sym < 256 THEN InflateFixed(bits, next, Append(out, sym))
      ELSE IF sym = 256 THEN [ok |-> TRUE, out |-> out, pos |-> next]
      ELSE LET m == InflateMatch(bits, next, out, sym)
           IN  IF m.ok THEN InflateFixed(bits, m.pos, m.out) ELSE InflateError

\* The first bit position at or after pos that starts a byte.
ByteAlign(pos) == ((pos + 6) \div 8) * 8 + 1

\* A stored block: LEN and its complement NLEN at the next byte boundary,
\* then LEN bytes.
InflateStored(bits, pos, out) ==
  LET start == ByteAlign(pos)
      avail == Len(bits) - start + 1
      len == FieldVal(bits, start, 16)
      nlen == FieldVal(bits, start + 16, 16)
  IN  IF avail < 32 THEN InflateError
      ELSE IF len + nlen # 65535 THEN InflateError
      ELSE IF avail < 32 + 8 * len THEN InflateError
      ELSE [ok |-> TRUE,
            out |-> out \o [i \in 1..len |-> FieldVal(bits, start + 32 + 8 * (i - 1), 8)],
            pos |-> start + 32 + 8 * len]

\* The blocks of a deflate stream up to the one marked final.  A block
\* with dynamic Huffman codes (type 2) is not decoded: its code tables do
\* not fit in the streams of the model before their trailer, so inflating
\* one ends in an error like the reserved type 3 does.
RECURSIVE InflateBlocks(_, _, _)
InflateBlocks(bits, pos, out) ==
  IF Len(bits) - pos + 1 < 3 THEN InflateError
  ELSE LET bfinal == bits[pos]
           btype == bits[pos + 1] + 2 * bits[pos + 2]
           blk == CASE btype = 0 -> InflateStored(bits, pos + 3, out)
                    [] btype = 1 -> InflateFixed(bits, pos + 3, out)
                    [] OTHER -> InflateError
       IN  IF ~blk.ok THEN InflateError
           ELSE IF bfinal = 1 THEN blk
           ELSE InflateBlocks(bits, blk.pos, blk.out)

\* zlib.decompress(stream): the 2-byte header check, the deflate blocks,
\* the Adler-32 of the output against the trailer; bytes after the trailer
\* are ignored.  ok = FALSE is zlib.error.
zlib_decompress(bs) ==
  IF Len(bs) < 2 THEN [ok |-> FALSE, data |-> <<>>]
  ELSE IF \/ (bs[1] * 256 + bs[2]) % 31 # 0
          \/ bs[1] % 16 # 8
          \/ bs[1] \div 16 > 7
          \/ (bs[2] \div 32) % 2 # 0
       THEN [ok |-> FALSE, data |-> <<>>]
  ELSE LET bits == UnpackBits(SubSeq(bs, 3, Len(bs)))
           r == InflateBlocks(bits, 1, <<>>)
           trailer == 2 + (ByteAlign(r.pos) - 1) \div 8
       IN  IF ~r.ok THEN [ok |-> FALSE, data |-> <<>>]
           ELSE IF Len(bs) < trailer + 4 THEN [ok |-> FALSE, data |-> <<>>]
           ELSE IF SubSeq(bs, trailer + 1, trailer + 4) # adler32(r.out)
                THEN [ok |-> FALSE, data |-> <<>>]
           ELSE [ok |-> TRUE, data |-> r.out]

\* ------------------------------------------------------------- hashlib
\* hashlib.sha256(data).hexdigest(): SHA-256 itself is not computed; the
\* digest is a deterministic function of all the bytes, rendered as
\* lower-case hexadecimal text, that tells apart any two files of the
\* model (as SHA-256 is taken to tell apart any two files).
HexDigits == <<"0", "1", "2", "3", "4", "5", "6", "7", "8", "9", "a", "b", "c", "d", "e", "f">>
RECURSIVE DigestFold(_, _)
DigestFold(data, h) ==
  IF data = <<>> THEN h ELSE DigestFold(Tail(data), (h * 131 + Head(data) + 1) % 65536)
sha256_hexdigest(data) ==
  LET h == DigestFold(data, 27183)
  IN  <<HexDigits[(h \div 4096) + 1], HexDigits[((h \div 256) % 16) + 1],
        HexDigits[((h \div 16) % 16) + 1], HexDigits[(h % 16) + 1]>>

\* ---------------------------------------------------------- encode_file
Min(a, b) == IF a < b THEN a ELSE b

\* Mutant of Chunks: only the full chunks, a shorter last one is lost
\* (range(0, len(b64) - k + 1, k)).
Chunks_full_only(b64, k) ==
  [j \in 1..(Len(b64) \div k) |-> SubSeq(b64, (j - 1) * k + 1, j * k)]

\* chunks = [b64[i:i+k] for i in range(0, len(b64), k)]
Chunks(b64, k) ==
  [j \in 1..((Len(b64) + k - 1) \div k) |->
     SubSeq(b64, (j - 1) * k + 1, Min(j * k, Len(b64)))]

\* f"{META_PREFIX}|{filename}|{total}|{orig_size}|{sha256}"
meta_payload(name, total, orig_size, sha) ==
  JoinBar(<<META_PREFIX, name, str(total), str(orig_size), sha>>)

\* f"{PART_PREFIX}|{filename}|{total}|{i}|{chunk}"
part_payload(name, total, i, chunk) ==
  JoinBar(<<PART_PREFIX, name, str(total), str(i), chunk>>)

\* The base64 text encode_file splits: b64encode(zlib.compress(data)).
EncodedText(bytes) == b64encode(zlib_compress(bytes))

\* Mutant of TotalUnits: the META frame is not counted.
TotalUnits_parts_only(chunks) == Len(chunks)

\* total = len(chunks) + 1
TotalUnits(chunks) == Len(chunks) + 1

\* Mutant of encode_file: the PART frames are numbered from 0
\* (enumerate(chunks) without start=1).
encode_file_from_zero(bytes, name, k) ==
  LET chunks == Chunks(EncodedText(bytes), k)
      total == TotalUnits(chunks)
  IN  <<meta_payload(name, total, Len(bytes), sha256_hexdigest(bytes))>>
      \o [i \in 1..Len(chunks) |-> part_payload(name, total, i - 1, chunks[i])]

\* The payloads encode_file hands to make_qr, in order: the META frame,
\* then the PART frames 1..N.
encode_file(bytes, name, k) ==
  LET chunks == Chunks(EncodedText(bytes), k)
      total == TotalUnits(chunks)
  IN  <<meta_payload(name, total, Len(bytes), sha256_hexdigest(bytes))>>
      \o [i \in 1..Len(chunks) |-> part_payload(name, total, i, chunks[i])]

\* ----------------------------------------------------------- decode_pdf
\* found_parts[idx] = b64data
DictSet(d, key, val) ==
  [i \in (DOMAIN d) \cup {key} |-> IF i = key THEN val ELSE d[i]]

\* The scan loop's state: the four locals it assigns, and the exception
\* that left it, if any.
ScanState(fp, et, fh, es, e) ==
  [found_parts |-> fp, expected_total |-> et, filename_hint |-> fh,
   expected_sha256 |-> es, exc |-> e]

\* A META payload (l.155-160): split at every '|'; with five fields or
\* more, int(tot) and the assignments; with fewer, nothing.
scan_meta(st, content) ==
  LET parts == split(content, -1)
      tot == int(parts[3])
  IN  IF Len(parts) < 5 THEN st
      ELSE IF ~tot.ok THEN [st EXCEPT !.exc = Some("ValueError")]
      ELSE [st EXCEPT !.expected_total = Some(tot.val),
                      !.filename_hint = Some(parts[2]),
                      !.expected_sha256 = Some(parts[5])]

\* A PART payload (l.162-166): split at the first four '|'; with five
\* fields, int(idx_s) and the entry of found_parts (the last write of an
\* index wins); with fewer, nothing.
scan_part(st, content) ==
  LET parts == split(content, 4)
      idx == int(parts[4])
  IN  IF Len(parts) < 5 THEN st
      ELSE IF ~idx.ok THEN [st EXCEPT !.exc = Some("ValueError")]
      ELSE [st EXCEPT !.found_parts = DictSet(st.found_parts, idx.val, parts[5])]

\* One pass of the loop body over a decoded symbol's bytes (l.150-166).
scan_barcode(st, bytes) ==
  IF ~utf8_ok(bytes) THEN st
  ELSE IF startswith(bytes, META_PREFIX) THEN scan_meta(st, bytes)
  ELSE IF startswith(bytes, PART_PREFIX) THEN scan_part(st, bytes)
  ELSE st

\* missing = [i for i in range(1, num_parts+1) if i not in found_parts]
RECURSIVE MissingFrom(_, _, _)
MissingFrom(fp, i, num_parts) ==
  IF i > num_parts THEN <<>>
  ELSE (IF i \in DOMAIN fp THEN <<>> ELSE <<i>>) \o MissingFrom(fp, i + 1, num_parts)
\* Mutant of MissingParts: the range starts at 0 (range(num_parts+1)).
MissingParts_from_zero(fp, num_parts) == MissingFrom(fp, 0, num_parts)
MissingParts(fp, num_parts) == MissingFrom(fp, 1, num_parts)

\* assembled_b64 = ''.join(found_parts[i] for i in range(1, num_parts+1))
Assemble(fp, num_parts) == Concat([i \in 1..num_parts |-> fp[i]])

\* if expected_sha256 and expected_sha256 != sha256_calc
Mismatch(expected, calc) ==
  expected # None /\ expected[1] # <<>> /\ expected[1] # calc

\* What the part of decode_pdf after the loop (l.167-185) ends with:
\*   status  "no_metadata" | "missing_parts" | "exception" | "wrote"
\*   missing       the list printed with "Missing parts"
\*   reconstructed whether l.175-176 were reached
\*   warning       whether the SHA256 mismatch warning was printed
\*   output        None, or the bytes written to the output file
\*   exc           None, or the exception that ended the run
Result(status, missing, reconstructed, warning, output, e) ==
  [status |-> status, missing |-> missing, reconstructed |-> reconstructed,
   warning |-> warning, output |-> output, exc |-> e]

\* Mutant of decode_finish: the output file is opened for writing before
\* the stream is assembled, so a failing reconstruction leaves it empty.
decode_finish_open_first(st) ==
  IF st.expected_total = None
  THEN Result("no_metadata", <<>>, FALSE, FALSE, None, None)
  ELSE LET num_parts == st.expected_total[1] - 1
           missing == MissingParts(st.found_parts, num_parts)
           raw == b64decode(Assemble(st.found_parts, num_parts))
           plain == zlib_decompress(raw.data)
       IN  IF missing # <<>>
           THEN Result("missing_parts", missing, FALSE, FALSE, None, None)
           ELSE IF ~raw.ok
           THEN Result("exception", <<>>, TRUE, FALSE, Some(<<>>), Some("binascii.Error"))
           ELSE IF ~plain.ok
           THEN Result("exception", <<>>, TRUE, FALSE, Some(<<>>), Some("zlib.error"))
           ELSE Result("wrote", <<>>, TRUE,
                       Mismatch(st.expected_sha256, sha256_hexdigest(plain.data)),
                       Some(plain.data), None)

decode_finish(st) ==
  IF st.expected_total = None
  THEN Result("no_metadata", <<>>, FALSE, FALSE, None, None)
  ELSE LET num_parts == st.expected_total[1] - 1
           missing == MissingParts(st.found_parts, num_parts)
           raw == b64decode(Assemble(st.found_parts, num_parts))
           plain == zlib_decompress(raw.data)
       IN  IF missing # <<>>
           THEN Result("missing_parts", missing, FALSE, FALSE, None, None)
           ELSE IF ~raw.ok
           THEN Result("exception", <<>>, TRUE, FALSE, None, Some("binascii.Error"))
           ELSE IF ~plain.ok
           THEN Result("exception", <<>>, TRUE, FALSE, None, Some("zlib.error"))
           ELSE Result("wrote", <<>>, TRUE,
                       Mismatch(st.expected_sha256, sha256_hexdigest(plain.data)),
                       Some(plain.data), None)

\* main (l.187-196): decode_pdf returning ends the process with status 0,
\* an exception it lets through with status 1.
ExitStatus(e) == IF e = None THEN 0 ELSE 1

\* ---------------------------------------------------------- the program
VARIABLES
  pc,               \* "encode": before encode_file; "scan": in decode_pdf's
                    \* loop; "done": the decode run has ended
  data,             \* encode_file: the bytes of the input file
  filename,         \* encode_file: os.path.basename(input_path)
  chunk_size,       \* encode_file: the chunk size in force
  chunks,           \* encode_file: the chunks of the base64 text
  payloads,         \* encode_file: the payloads of the symbols, META first
  found_parts,      \* decode_pdf: index -> base64 chunk
  expected_total,   \* decode_pdf: None or the META frame's total
  filename_hint,    \* decode_pdf: None or the META frame's file name
  expected_sha256,  \* decode_pdf: None or the META frame's digest
  result,           \* decode_pdf: how the run ended (Result)
  exit_status,      \* main: None while running, then the process status
  delivered,        \* the symbols of the backup read intact so far
  capture           \* what the scan has been like so far:
                    \*   "intact"   each symbol read was printed by encode_file
                    \*              and read once
                    \*   "repeated" as intact, some symbol read more than once
                    \*   "damaged"  a PART symbol was read with a flipped bit
                    \*   "noise"    a symbol that is no frame was read
                    \*   "foreign"  a META frame not of this backup was read
                    \* A run meets at most one of the last three.

vars ==
  <<pc, data, filename, chunk_size, chunks, payloads, found_parts, expected_total,
    filename_hint, expected_sha256, result, exit_status, delivered, capture>>

encodeVars == <<data, filename, chunk_size, chunks, payloads>>

\* The input files, the file names (one holding the frame delimiter) and
\* the chunk sizes of the encode runs.
InputFiles == SeqsUpTo(FileBytes, MaxLen)
FileNames == {<<"f">>, <<"a", "|", "b">>}
ChunkSizes == {SmallChunk, CHUNK_SIZE}

Running == Result("running", <<>>, FALSE, FALSE, None, None)

Init ==
  /\ pc = "encode"
  /\ data = <<>>
  /\ filename = <<>>
  /\ chunk_size = CHUNK_SIZE
  /\ chunks = <<>>
  /\ payloads = <<>>
  /\ found_parts = <<>>
  /\ expected_total = None
  /\ filename_hint = None
  /\ expected_sha256 = None
  /\ result = Running
  /\ exit_status = None
  /\ delivered = {}
  /\ capture = "intact"

\* encode_file (l.112-133), followed by the start of decode_pdf on what
\* was printed (l.143-146, the values Init gives the decoder's locals).
EncodeFile ==
  /\ pc = "encode"
  /\ \E bytes \in InputFiles, name \in FileNames, k \in ChunkSizes :
       /\ data' = bytes
       /\ filename' = name
       /\ chunk_size' = k
       /\ chunks' = Chunks(EncodedText(bytes), k)
       /\ payloads' = encode_file(bytes, name, k)
  /\ pc' = "scan"
  /\ UNCHANGED <<found_parts, expected_total, filename_hint, expected_sha256, result,
                 exit_status, delivered, capture>>

\* The loop body on one decoded symbol (l.149-166).  An exception leaves
\* decode_pdf and main: the run ends with status 1 and nothing written.
Scan(bytes) ==
  LET st == scan_barcode(ScanState(found_parts, expected_total, filename_hint,
                                   expected_sha256, None), bytes)
  IN  /\ found_parts' = st.found_parts
      /\ expected_total' = st.expected_total
      /\ filename_hint' = st.filename_hint
      /\ expected_sha256' = st.expected_sha256
      /\ IF st.exc = None
         THEN pc' = "scan" /\ UNCHANGED <<result, exit_status>>
         ELSE /\ pc' = "done"
              /\ result' = Result("exception", <<>>, FALSE, FALSE, None, st.exc)
              /\ exit_status' = Some(ExitStatus(st.exc))

\* A symbol of the backup is read as printed.  Pages come in any order and
\* a symbol may be captured again.
ScanFrame ==
  /\ pc = "scan"
  /\ \E i \in 1..Len(payloads) :
       /\ Scan(payloads[i])
       /\ delivered' = delivered \cup {i}
       /\ capture' = IF capture = "intact" /\ i \in delivered THEN "repeated" ELSE capture
  /\ UNCHANGED encodeVars

\* One bit of the 6-bit value v flipped.
FlipBit(v, bit) == IF (v \div Pow2(bit)) % 2 = 1 THEN v - Pow2(bit) ELSE v + Pow2(bit)
\* chunk with one payload bit of its character p flipped.
DamagedChunk(chunk, p, bit) ==
  [chunk EXCEPT ![p] = B64Char(FlipBit(B64Val(chunk[p]), bit))]

\* A PART symbol of the backup is read with one bit of its base64 payload
\* flipped (at most one such symbol per run).
ScanDamagedPart ==
  /\ pc = "scan"
  /\ capture \in {"intact", "repeated"}
  /\ \E j \in 1..Len(chunks) :
       \E p \in 1..Len(chunks[j]), bit \in 0..5 :
         /\ IsB64(chunks[j][p])
         /\ Scan(part_payload(filename, Len(payloads), j, DamagedChunk(chunks[j], p, bit)))
  /\ capture' = "damaged"
  /\ UNCHANGED <<encodeVars, delivered>>

\* Symbols that are no frame: another prefix, too few '|' fields, bytes
\* that are not UTF-8, a total or an index that is no number.
NoisePayloads ==
  { <<"H", "E", "L", "L", "O">>,
    JoinBar(<<META_PREFIX, <<"f">>, <<"2">>>>),
    JoinBar(<<PART_PREFIX, <<"f">>, <<"2">>, <<"1">>>>),
    JoinBar(<<PART_PREFIX, <<"f">>, <<"2">>, <<"1">>, <<BadByte, "A", "A", "A">>>>),
    JoinBar(<<META_PREFIX, <<"f">>, <<"x">>, <<"0">>, <<"a", "b">>>>),
    JoinBar(<<PART_PREFIX, <<"f">>, <<"2">>, <<"x">>, <<"A", "A", "A", "A">>>>) }

ScanNoise ==
  /\ pc = "scan"
  /\ capture \in {"intact", "repeated", "noise"}
  /\ \E bytes \in NoisePayloads : Scan(bytes)
  /\ capture' = "noise"
  /\ UNCHANGED <<encodeVars, delivered>>

\* hex with its first digit replaced by another one.
OtherDigest(hex) == [hex EXCEPT ![1] = IF hex[1] = "0" THEN "1" ELSE "0"]

\* META frames that are not the one encode_file printed: the META frame of a
\* backup that declares one unit (metadata only), and the backup's own META
\* frame with another digest.
ForeignMetas ==
  { meta_payload(<<"f">>, 1, 0, sha256_hexdigest(<<>>)),
    meta_payload(filename, Len(payloads), Len(data), OtherDigest(sha256_hexdigest(data))) }

ScanForeignMeta ==
  /\ pc = "scan"
  /\ capture \in {"intact", "repeated", "foreign"}
  /\ \E bytes \in ForeignMetas : Scan(bytes)
  /\ capture' = "foreign"
  /\ UNCHANGED <<encodeVars, delivered>>

\* The loop is over: the rest of decode_pdf (l.167-185), and main's end.
\* The output path names a file, so that out_name is output_path.
Finish ==
  /\ pc = "scan"
  /\ pc' = "done"
  /\ result' = decode_finish(ScanState(found_parts, expected_total, filename_hint,
                                       expected_sha256, None))
  /\ exit_status' = Some(ExitStatus(result'.exc))
  /\ UNCHANGED <<encodeVars, found_parts, expected_total, filename_hint, expected_sha256,
                 delivered, capture>>

Next ==
  \/ EncodeFile
  \/ ScanFrame
  \/ ScanDamagedPart
  \/ ScanNoise
  \/ ScanForeignMeta
  \/ Finish

Spec == Init /\ [][Next]_vars

\* ========================================================== properties
\* name holds no '|'.
NoBar(name) == \A i \in 1..Len(name) : name[i] # "|"
\* Only symbols of the backup were read, as printed.
Clean == capture \in {"intact", "repeated"}
\* Every symbol of the backup was read as printed.
Complete == delivered = 1..Len(payloads)
\* The fields a frame of this backup carries after its prefix and file name:
\* of the META frame <<total, size, digest>>, of a PART frame
\* <<total, index, chunk>>.
MetaFields(payload) ==
  split(SubSeq(payload, Len(META_PREFIX) + Len(filename) + 3, Len(payload)), -1)
PartFields(payload) ==
  split(SubSeq(payload, Len(PART_PREFIX) + Len(filename) + 3, Len(payload)), 2)
\* The PART frames among the payloads, in the order encode_file emitted them.
PartFrames == [j \in 1..(Len(payloads) - 1) |-> PartFields(payloads[j + 1])]
\* The indices 1..T-1 the decoder holds no chunk for.
Absent == {i \in 1..(expected_total[1] - 1) : i \notin DOMAIN found_parts}
\* The loop of decode_pdf ended without an exception.
LoopEnded == pc = "done" /\ ~(result.status = "exception" /\ ~result.reconstructed)

\* C1: for a file name without '|', decode_pdf fed every frame encode_file
\* produced - in any order, frames read more than once - writes the
\* original bytes, their digest equals the META digest, and no mismatch
\* warning is printed.
C1_RoundTrip ==
  (pc = "done" /\ NoBar(filename) /\ Clean /\ Complete) =>
    /\ result.status = "wrote"
    /\ result.exc = None
    /\ result.output = Some(data)
    /\ expected_sha256 = Some(sha256_hexdigest(result.output[1]))
    /\ ~result.warning

C1_Witness ==
  /\ pc = "done"
  /\ NoBar(filename)
  /\ capture = "repeated"
  /\ Complete
  /\ Len(payloads) >= 4
  /\ data # <<>>
  /\ result.output = Some(data)

\* C2: the PART frames encode_file emits carry the indices 1..totalUnits-1,
\* each once and in this order, and their chunks concatenated in index
\* order are the base64 text of the compressed input, nothing missing and
\* nothing twice.
C2_PartsPartitionText ==
  (pc # "encode") =>
    /\ startswith(payloads[1], META_PREFIX)
    /\ int(MetaFields(payloads[1])[1]) = [ok |-> TRUE, val |-> Len(payloads)]
    /\ \A j \in 1..(Len(payloads) - 1) :
         /\ startswith(payloads[j + 1], PART_PREFIX)
         /\ int(PartFrames[j][2]) = [ok |-> TRUE, val |-> j]
         /\ PartFrames[j][3] # <<>>
    /\ Concat([j \in 1..(Len(payloads) - 1) |-> PartFrames[j][3]]) = EncodedText(data)

C2_Witness ==
  /\ pc = "scan"
  /\ data # <<>>
  /\ Len(payloads) >= 4
  /\ Len(PartFrames[Len(payloads) - 1][3]) < Len(PartFrames[1][3])

\* C3: when the loop has ended with a META frame of total T and some index
\* of 1..T-1 has no chunk, decode_pdf reports exactly the absent indices as
\* missing and reconstructs nothing (no assembly, no decompression, no
\* output); it reports missing parts in no other case.  When only symbols
\* of the backup were read, the absent indices are those of the PART
\* frames not read.
C3_MissingNamedExactly ==
  /\ (LoopEnded /\ expected_total # None /\ Absent # {}) =>
       /\ result.status = "missing_parts"
       /\ {result.missing[k] : k \in 1..Len(result.missing)} = Absent
       /\ Len(result.missing) = Cardinality(Absent)
       /\ ~result.reconstructed
       /\ ~result.warning
       /\ result.output = None
       /\ (Clean /\ NoBar(filename)) =>
            Absent = {j \in 1..(Len(payloads) - 1) : (j + 1) \notin delivered}
  /\ (pc = "done" /\ result.status = "missing_parts") =>
       (expected_total # None /\ Absent # {})

C3_Witness ==
  /\ pc = "done"
  /\ result.status = "missing_parts"
  /\ Len(result.missing) = 2
  /\ DOMAIN found_parts # {}
  /\ result.output = None

\* C4 (as claimed): given every unit of the backup, one PART frame's payload
\* with a flipped bit, decode_pdf reconstructs without an exception, prints
\* the digest mismatch warning and writes the output.
C4_DamagedStillWritten ==
  ( /\ pc = "done"
    /\ capture = "damaged"
    /\ expected_total = Some(Len(payloads))
    /\ DOMAIN found_parts = 1..Len(chunks)
    /\ \E j \in 1..Len(chunks) : found_parts[j] # chunks[j] ) =>
    /\ result.exc = None
    /\ result.warning
    /\ result.output # None

C6_MetadataOnlyDecodes ==
  (pc = "done" /\ expected_total = Some(1) /\ DOMAIN found_parts = {}) =>
    /\ result.status = "wrote"
    /\ result.exc = None
    /\ result.output = Some(<<>>)

\* C7 (as claimed): a symbol that is no META or PART frame (another prefix,
\* too few fields, bytes that are not UTF-8, a total or an index that is no
\* number) is dropped: the loop goes on without an error, the metadata and
\* the mapping as they were.
C7_NoiseDropped ==
  [][ScanNoise =>
       /\ pc' = "scan"
       /\ result' = result
       /\ UNCHANGED <<found_parts, expected_total, filename_hint, expected_sha256>>]_vars

\* C8: whenever decode_pdf ends fatally - no META frame, parts missing, or
\* an exception (from the loop, base64 decoding or decompression) - the
\* output file was never opened: nothing is written.
C8_FatalWritesNothing ==
  (pc = "done" /\ result.status \in {"no_metadata", "missing_parts", "exception"}) =>
    result.output = None

C8_Witness ==
  /\ pc = "done"
  /\ result.status = "exception"
  /\ result.exc = Some("zlib.error")
  /\ result.reconstructed
  /\ result.output = None

\* C9 (as claimed): a decode run that ends fatally (no META frame, parts
\* missing) ends with a non-zero status or an exception, and one whose only
\* problem is a digest mismatch ends with status 0.
C9_FatalExitsNonZero ==
  (pc = "done") =>
    /\ (result.status \in {"no_metadata", "missing_parts"}) => exit_status # Some(0)
    /\ (result.status = "wrote") => exit_status = Some(0)

\* C10 (as claimed): for every file name, also one holding '|', the decoder
\* recovers from the META payload the total and the digest encode_file
\* wrote, and from each PART payload the index and the chunk it wrote.
C10_ParseInvertsSerialise ==
  Clean =>
    \A i \in delivered :
      /\ result.exc = None
      /\ (i = 1) =>
           /\ expected_total = Some(Len(payloads))
           /\ expected_sha256 = Some(sha256_hexdigest(data))
      /\ (i > 1) =>
           /\ (i - 1) \in DOMAIN found_parts
           /\ found_parts[i - 1] = chunks[i - 1]
====
